---- MODULE Spec2Model ----
(***************************************************************************)
(* leveelogic: the berm builder (AlgorithmBermWSBD), the phreatic-line     *)
(* builder (AlgorithmPhreaticLine) and the surface extractor               *)
(* (DStability._post_process) as state machines.                           *)
(*                                                                         *)
(* Numbers.  The code computes with Python floats.  The model computes     *)
(* with exact rationals <<n, d>> (d > 0, lowest terms); nan is <<0, 0>>.   *)
(* round(v, 3) is modelled by what it does: the nearest multiple of        *)
(* 1/1000, ties to the even one.  A point is <<x, z>>.                     *)
(***************************************************************************)
EXTENDS Integers, Sequences, FiniteSets, TLC

VARIABLES
    heap,      \* the cross-section objects alive: "self" is the caller's (self.ds), "copy" the deepcopy
    alg,       \* which builder ran last: "none", "berm" or "pl"
    args,      \* the fields of the algorithm object of that call
    ret,       \* the reference execute() returned ("self" or "copy"), "none" when it raised or has not run
    err,       \* the class of the exception execute() raised, "" when it returned
    msg,       \* which raise statement raised it (the message it carries)
    loc,       \* the locals of _execute at its exit that the properties speak of
    boundary,  \* extractor: the vertex ring handed to _post_process
    surface,   \* extractor: self.surface after _post_process
    done,      \* extractor: whether _post_process has run
    characteristic_points,  \* registry: self.characteristic_points, a list of [x, point_type]
    sets,      \* registry: the set_characteristic_point calls made so far, oldest first
    got,       \* registry: the last get_characteristic_point call: its argument, what it
               \* returned, and the list at the time of the call
    HeadLines, \* headlines: self.model.waternets[0].HeadLines, a list of [Label, Points]
    hcall,     \* headlines: the last get/set_headline_coordinates call and its outcome
    scenarios, \* stages: self.model.scenarios, each a list of stages, each stage the
               \* exterior ring of its merged layers
    current_scenario_index,  \* stages: self.current_scenario_index
    current_stage_index,     \* stages: self.current_stage_index
    scall,     \* stages: the last set_scenario_and_stage call, its outcome, and the
               \* indices and caches before it
    zcall      \* elevation query: the last z_at call and what it returned

registry == <<characteristic_points, sets, got>>

headlines == <<HeadLines, hcall>>

stages == <<scenarios, current_scenario_index, current_stage_index, scall>>

vars == <<heap, alg, args, ret, err, msg, loc, boundary, surface, done,
          characteristic_points, sets, got, HeadLines, hcall, scenarios,
          current_scenario_index, current_stage_index, scall, zcall>>

--------------------------------------------------------------------------
(* Rational arithmetic *)

Abs(k) == IF k < 0 THEN -k ELSE k

RECURSIVE Gcd(_, _)
Gcd(a, b) == IF b = 0 THEN a ELSE IF b = 1 THEN 1 ELSE Gcd(b, a % b)

Reduced(n, d, g) == IF d < 0 THEN <<(-n) \div g, (-d) \div g>> ELSE <<n \div g, d \div g>>

Norm(n, d) == IF d = 1 THEN <<n, 1>> ELSE Reduced(n, d, Gcd(Abs(n), Abs(d)))

R(k) == <<k, 1>>
Q(n, d) == Norm(n, d)

NaN == <<0, 0>>
isnan(r) == r[2] = 0

\* the operations cancel common factors (g, g1, g2) before they multiply,
\* which keeps the intermediate products small; nan spreads through the
\* arithmetic and compares false with everything
AddOver(a, b, g) ==
    Norm(a[1] * (b[2] \div g) + b[1] * (a[2] \div g), (a[2] \div g) * b[2])
RAdd(a, b) ==
    IF isnan(a) \/ isnan(b) THEN NaN
    ELSE IF a[2] = b[2] THEN Norm(a[1] + b[1], a[2])
    ELSE AddOver(a, b, Gcd(a[2], b[2]))
RNeg(a) == <<-a[1], a[2]>>
RSub(a, b) == RAdd(a, RNeg(b))
MulOver(a, b, g1, g2) ==
    <<(a[1] \div g1) * (b[1] \div g2), (a[2] \div g2) * (b[2] \div g1)>>
RMul(a, b) ==
    IF isnan(a) \/ isnan(b) THEN NaN
    ELSE IF a[1] = 0 \/ b[1] = 0 THEN <<0, 1>>
    ELSE IF a[2] = 1 /\ b[2] = 1 THEN <<a[1] * b[1], 1>>
    ELSE MulOver(a, b, Gcd(Abs(a[1]), b[2]), Gcd(Abs(b[1]), a[2]))
RInv(a) == IF a[1] < 0 THEN <<-a[2], -a[1]>> ELSE <<a[2], a[1]>>
RDiv(a, b) == RMul(a, RInv(b))
LtOver(a, b, g) == a[1] * (b[2] \div g) < b[1] * (a[2] \div g)
RLt(a, b) ==
    /\ ~isnan(a) /\ ~isnan(b)
    /\ IF a[2] = b[2] THEN a[1] < b[1] ELSE LtOver(a, b, Gcd(a[2], b[2]))
RLe(a, b) == a = b \/ RLt(a, b)
RMin(a, b) == IF RLe(a, b) THEN a ELSE b
RMax(a, b) == IF RLe(a, b) THEN b ELSE a
RZero(a) == a[1] = 0

\* round(r, 3)
Round3(r) ==
    LET m   == r[1] * 1000
        q   == m \div r[2]
        rem == m - q * r[2]
        up  == \/ 2 * rem > r[2]
               \/ (2 * rem = r[2] /\ q % 2 = 1)
    IN  Norm(IF up THEN q + 1 ELSE q, 1000)

RoundPt(p) == <<Round3(p[1]), Round3(p[2])>>

--------------------------------------------------------------------------
(* Sequences *)

Reverse(s) == [i \in 1..Len(s) |-> s[Len(s) + 1 - i]]

InSeq(e, s) == \E i \in 1..Len(s) : s[i] = e

\* list.index(e): the first position holding e
IndexOf(e, s) == CHOOSE i \in 1..Len(s) : s[i] = e /\ \A j \in 1..(i - 1) : s[j] # e

--------------------------------------------------------------------------
(* Geometry primitives (helpers.py is not among the sources: spec 4.1) *)

Px(p) == p[1]
Pz(p) == p[2]

\* the point of [p1, p1 + d1] at parameter t, when t and the parameter u
\* on the other segment both lie in [0, 1]
SegPoint(p1, d1, t, u) ==
    IF RLe(R(0), t) /\ RLe(t, R(1)) /\ RLe(R(0), u) /\ RLe(u, R(1))
    THEN << <<RAdd(Px(p1), RMul(t, Px(d1))), RAdd(Pz(p1), RMul(t, Pz(d1)))>> >>
    ELSE <<>>

\* directions d1, d2, offset e = p3 - p1, den the cross product d1 x d2
SegCross(p1, d1, d2, e, den) ==
    IF RZero(den) THEN <<>>
    ELSE SegPoint(p1, d1,
                  RDiv(RSub(RMul(Px(e), Pz(d2)), RMul(Pz(e), Px(d2))), den),
                  RDiv(RSub(RMul(Px(e), Pz(d1)), RMul(Pz(e), Px(d1))), den))

SegDirs(p1, d1, d2, e) ==
    SegCross(p1, d1, d2, e, RSub(RMul(Px(d1), Pz(d2)), RMul(Pz(d1), Px(d2))))

\* the intersection of segment [p1, p2] with segment [p3, p4], end points
\* included; parallel or degenerate segments give none: <<>> or <<point>>
SegSeg(p1, p2, p3, p4) ==
    SegDirs(p1,
            <<RSub(Px(p2), Px(p1)), RSub(Pz(p2), Pz(p1))>>,
            <<RSub(Px(p4), Px(p3)), RSub(Pz(p4), Pz(p3))>>,
            <<RSub(Px(p3), Px(p1)), RSub(Pz(p3), Pz(p1))>>)

\* one segment against every edge of a polyline, in the polyline's edge order
RECURSIVE SegPolyFrom(_, _, _, _)
SegPolyFrom(p1, p2, poly, j) ==
    IF j >= Len(poly) THEN <<>>
    ELSE SegSeg(p1, p2, poly[j], poly[j + 1]) \o SegPolyFrom(p1, p2, poly, j + 1)

line_polyline_intersections(x1, z1, x2, z2, poly) ==
    SegPolyFrom(<<x1, z1>>, <<x2, z2>>, poly, 1)

\* every edge of a against every edge of b: a's edge order, then b's; no
\* de-duplication
RECURSIVE PolyPolyFrom(_, _, _)
PolyPolyFrom(a, b, i) ==
    IF i >= Len(a) THEN <<>>
    ELSE SegPolyFrom(a[i], a[i + 1], b, 1) \o PolyPolyFrom(a, b, i + 1)

polyline_polyline_intersections(a, b) == PolyPolyFrom(a, b, 1)

--------------------------------------------------------------------------
(* DStability: a cross-section is a record
     layers      the Layers of the current geometry, each [points, soil, label]
     soils       the codes of self.soils
     boundary    self.boundary
     surface     self.surface
     toe_land, ditch_emb, ditch_land
                 waternetcreatorsettings[0]: EmbankmentToeLandSide,
                 DitchEmbankmentSide, DitchLandSide (nan when not set)
     cps         the landmarks the phreatic-line builder asks for: a function
                 from point type to x, absent types outside its domain
     layout      material_layout
     pl          the points of the phreatic line, <<>> when there is none   *)

\* Python's None: where a string is expected, where a number is expected,
\* where a characteristic point is expected
None == "<None>"
NoNumber == <<1, 0>>
NoPoint == [none |-> TRUE]

RECURSIVE LayerPoints(_)
LayerPoints(layers) ==
    IF layers = <<>> THEN <<>> ELSE Head(layers).points \o LayerPoints(Tail(layers))

RECURSIVE MinX(_)
MinX(pts) ==
    IF Len(pts) = 1 THEN Px(pts[1]) ELSE RMin(Px(pts[1]), MinX(Tail(pts)))

RECURSIVE MaxX(_)
MaxX(pts) ==
    IF Len(pts) = 1 THEN Px(pts[1]) ELSE RMax(Px(pts[1]), MaxX(Tail(pts)))

\* self.points is the concatenation of the layers' points
left(d)  == MinX(LayerPoints(d.layers))
right(d) == MaxX(LayerPoints(d.layers))

\* a catalogue that knows every code
AnySoilcode(d, soilcode) == TRUE

has_soilcode(d, soilcode) == soilcode \in d.soils

surface_points_between(d, l, r) ==
    SelectSeq(d.surface, LAMBDA p : RLe(l, Px(p)) /\ RLe(Px(p), r))

\* the z values of one layer at x: the edges Points[i-1] - Points[i] for
\* i in 1..len-1 (the branch for i == len is never taken, so the edge from
\* the last point back to the first is not looked at)
RECURSIVE LayerZs(_, _, _)
LayerZs(pts, x, i) ==
    IF i >= Len(pts) THEN <<>>
    ELSE LET p1 == pts[i]
             p2 == pts[i + 1]
             hit == RLe(RMin(Px(p1), Px(p2)), x) /\ RLe(x, RMax(Px(p1), Px(p2)))
             z == IF Px(p1) = Px(p2) THEN Pz(p1)
                  ELSE RAdd(Pz(p1), RMul(RDiv(RSub(x, Px(p1)), RSub(Px(p2), Px(p1))),
                                         RSub(Pz(p2), Pz(p1))))
         IN  (IF hit THEN <<z>> ELSE <<>>) \o LayerZs(pts, x, i + 1)

RECURSIVE AllZs(_, _)
AllZs(layers, x) ==
    IF layers = <<>> THEN <<>>
    ELSE LayerZs(Head(layers).points, x, 1) \o AllZs(Tail(layers), x)

\* sorted(result, reverse=True) of the distinct values
RECURSIVE SortDesc(_)
SortDesc(S) ==
    IF S = {} THEN <<>>
    ELSE LET m == CHOOSE a \in S : \A b \in S : RLe(b, a)
         IN  <<m>> \o SortDesc(S \ {m})

z_at(d, x) ==
    LET zs == AllZs(d.layers, x)
    IN  SortDesc({zs[i] : i \in 1..Len(zs)})

\* the lowest of the ring's points at x
LowAt(ring, x) ==
    CHOOSE p \in {ring[i] : i \in 1..Len(ring)} :
        /\ Px(p) = x
        /\ \A i \in 1..Len(ring) : Px(ring[i]) = x => RLe(Pz(p), Pz(ring[i]))

\* _post_process, from the boundary on: the surface is the boundary rotated
\* to start at the topmost of its leftmost points, cut after the topmost of
\* its rightmost points
TopAt(ring, x) ==
    CHOOSE p \in {ring[i] : i \in 1..Len(ring)} :
        /\ Px(p) = x
        /\ \A i \in 1..Len(ring) : Px(ring[i]) = x => RLe(Pz(ring[i]), Pz(p))

Rotated(ring) ==
    LET idx_left == IndexOf(TopAt(ring, MinX(ring)), ring)
    IN  SubSeq(ring, idx_left, Len(ring)) \o SubSeq(ring, 1, idx_left - 1)

SurfaceOf(ring) ==
    LET rot == Rotated(ring)
        idx_right == IndexOf(TopAt(ring, MaxX(ring)), rot)
    IN  SubSeq(rot, 1, idx_right)

--------------------------------------------------------------------------
(* The registry of characteristic points: self.characteristic_points is a
   list of CharacteristicPoint(x, point_type).  What get returns is None
   (NoPoint), one point [point |-> cp] or a list [list |-> <<cp, ...>>]. *)

\* lines 311-320 and 348-357: the types there is at most one point of
SingularTypes == {"toe left", "crest left", "reference point", "crest right", "toe right",
                  "start polder", "start surface", "end surface"}

\* no type is kept to one point
NeverSingular(point_type) == FALSE

IsSingular(point_type) == point_type \in SingularTypes

CharacteristicPoint(x, point_type) == [x |-> x, point_type |-> point_type]

\* the points of the type, the newest first
MatchingBackwards(cps, point_type) ==
    Reverse(SelectSeq(cps, LAMBDA cp : cp.point_type = point_type))

\* lines 363-365: the points of the type, in the order of the list
Matching(cps, point_type) == SelectSeq(cps, LAMBDA cp : cp.point_type = point_type)

\* lines 347-369
get_characteristic_point(cps, point_type) ==
    IF IsSingular(point_type)
    THEN IF \E i \in 1..Len(cps) : cps[i].point_type = point_type
         THEN [point |-> cps[CHOOSE i \in 1..Len(cps) :
                                /\ cps[i].point_type = point_type
                                /\ \A j \in 1..(i - 1) : cps[j].point_type # point_type]]
         ELSE NoPoint
    ELSE IF Matching(cps, point_type) = <<>> THEN NoPoint
         ELSE [list |-> Matching(cps, point_type)]

\* lines 311-332: the list after set_characteristic_point(x, point_type)
set_characteristic_point(cps, x, point_type) ==
    IF IsSingular(point_type) /\ get_characteristic_point(cps, point_type) # NoPoint
    THEN [i \in 1..Len(cps) |->
            IF cps[i].point_type = point_type THEN [cps[i] EXCEPT !.x = x] ELSE cps[i]]
    ELSE Append(cps, CharacteristicPoint(x, point_type))

NoGot == [point_type |-> None, result |-> NoPoint, at |-> <<>>]

--------------------------------------------------------------------------
(* DStability members the builders call that are not among the sources,
   modelled from the design text (4.2 to 4.5, 6) *)

RDist(a, b) == IF RLe(a, b) THEN RSub(b, a) ELSE RSub(a, b)

\* get_closest_point_from_x: the surface point nearest x, the first of them
get_closest_point_from_x(d, x) ==
    LET S == d.surface
        i == CHOOSE i \in 1..Len(S) :
                /\ \A j \in 1..Len(S) : ~RLt(RDist(Px(S[j]), x), RDist(Px(S[i]), x))
                /\ \A j \in 1..(i - 1) : RLt(RDist(Px(S[i]), x), RDist(Px(S[j]), x))
    IN  S[i]

\* the leading vertices of a new layer that run left to right: its top
RECURSIVE TopChainLen(_, _)
TopChainLen(pts, i) ==
    IF i < Len(pts) /\ RLt(Px(pts[i]), Px(pts[i + 1])) THEN TopChainLen(pts, i + 1) ELSE i

\* z of a left-to-right chain at x, for x within it
ChainZ(chain, x) ==
    LET i == CHOOSE i \in 1..(Len(chain) - 1) : RLe(Px(chain[i]), x) /\ RLe(x, Px(chain[i + 1]))
        a == chain[i]
        b == chain[i + 1]
    IN  RAdd(Pz(a), RMul(RDiv(RSub(x, Px(a)), RSub(Px(b), Px(a))), RSub(Pz(b), Pz(a))))

\* the outer ring of the union of the cross-section with a layer laid on its
\* surface: the stretch of the surface under the layer's top is replaced by
\* that top.  A layer whose top does not lie on or above the ground it spans
\* leaves the ring as it is.
UnionBoundary(d, pts) ==
    LET n     == TopChainLen(pts, 1)
        chain == SubSeq(pts, 1, n)
        l     == Px(chain[1])
        r     == Px(chain[n])
        S     == d.surface
        rot   == Rotated(d.boundary)
        rest  == SubSeq(rot, Len(S) + 1, Len(rot))
        above == \A i \in 1..Len(S) :
                    (RLt(l, Px(S[i])) /\ RLt(Px(S[i]), r)) => RLe(Pz(S[i]), ChainZ(chain, Px(S[i])))
    IN  IF n < 2 \/ ~above THEN d.boundary
        ELSE SelectSeq(S, LAMBDA p : RLt(Px(p), l)) \o chain
             \o SelectSeq(S, LAMBDA p : RLt(r, Px(p))) \o rest

\* add_layer: the layer joins the layer set, and boundary and surface are
\* derived again
add_layer(d, pts, soilcode, label) ==
    LET ring == UnionBoundary(d, pts)
    IN  [d EXCEPT !.layers = Append(@, [points |-> pts, soil |-> soilcode, label |-> label]),
                  !.boundary = ring,
                  !.surface = SurfaceOf(ring)]

\* ditch_points: the surface points of the ditch, none without its landmarks
ditch_points(d) ==
    IF isnan(d.ditch_emb) \/ isnan(d.ditch_land) THEN <<>>
    ELSE surface_points_between(d, d.ditch_emb, d.ditch_land)

\* get_characteristic_point as the phreatic-line builder uses it: the one
\* point of the type, or None (NoPoint)
Landmark(d, point_type) ==
    IF point_type \in DOMAIN d.cps THEN [x |-> d.cps[point_type]] ELSE NoPoint

is_valid(cp) == ~isnan(cp.x)

\* set_phreatic_line: the points become the phreatic line
set_phreatic_line(d, points) == [d EXCEPT !.pl = points]

--------------------------------------------------------------------------
(* The heap of cross-section objects.  self.ds is the object "self";
   deepcopy makes the object "copy". *)

\* no copy: the builder works on the caller's object
NoCopy(h) == "self"

\* deepcopy(self.ds): the reference of the new object
deepcopy(h) == "copy"

Copied(h, ref) == [r \in {"self", ref} |-> h["self"]]

Put(h, ref, d) == [h EXCEPT ![ref] = d]

\* the locals of _execute kept for the properties; stage tells how far the
\* berm sizing came: 0 not started, 1 top intersections taken, 2 pA and pB
\* placed, 3 the intersection list made
NoLoc == [stage |-> 0, top |-> <<>>, pA |-> <<>>, pB |-> <<>>, pC |-> <<>>, ints |-> <<>>,
          abcdef |-> <<>>]

Raise(h, kind, text, l) == [heap |-> h, ret |-> "none", err |-> kind, msg |-> text, loc |-> l]
Return(h, ref, l) == [heap |-> h, ret |-> ref, err |-> "", msg |-> "", loc |-> l]

--------------------------------------------------------------------------
(* AlgorithmBermWSBD.  The algorithm object a has the fields soilcode,
   slope_top, slope_bottom, width, height, fill_ditch, ditch_soilcode. *)

\* a berm is asked for by a width or a height
SizedEither(a) == RLt(R(0), a.width) \/ RLt(R(0), a.height)

\* line 30: a berm is asked for
Sized(a) == RLt(R(0), a.width) /\ RLt(R(0), a.height)

\* the ditch is checked only with a berm
FillCheckedWhenSized(a) == a.fill_ditch /\ Sized(a)

\* line 70: the ditch is checked whenever it is to be filled
FillChecked(a) == a.fill_ditch

\* line 71: a ditch landmark is missing
DitchPointsMissing(d) == isnan(d.ditch_emb) \/ isnan(d.ditch_land)

\* line 98: only the ditch is filled
SkipBerm(a) == RLe(a.width, R(0)) \/ RLe(a.height, R(0))

\* _check_input: [err, msg, toe], toe being self.embankement_toe_land_side
\* as the check leaves it
BermCheckInput(d, a) ==
    LET sized == Sized(a)
        toe   == IF sized THEN d.toe_land ELSE NaN
        ok    == [err |-> "", msg |-> "", toe |-> toe]
        bad(text) == [err |-> "AlgorithmInputCheckError", msg |-> text, toe |-> toe]
    IN  IF sized /\ ~has_soilcode(d, a.soilcode) THEN bad("invalid soilcode")
        ELSE IF sized /\ isnan(toe) THEN bad("no embankement toe land side")
        ELSE IF ~FillChecked(a) THEN ok
        ELSE IF DitchPointsMissing(d) THEN bad("ditch points missing")
        ELSE IF a.ditch_soilcode = None THEN bad("ditch soilcode not set")
        ELSE IF ~has_soilcode(d, a.ditch_soilcode) THEN bad("ditch soilcode not valid")
        ELSE ok

\* lines 87-94: the ditch fill goes into ds; the points are read from self.ds
DitchFill(h, ref, a) ==
    LET me  == h["self"]
        fp1 == get_closest_point_from_x(me, me.ditch_emb)
        fp2 == get_closest_point_from_x(me, me.ditch_land)
        fp_points == <<fp1, fp2>> \o Reverse(surface_points_between(me, Px(fp1), Px(fp2)))
    IN  Put(h, ref, add_layer(h[ref], fp_points, a.ditch_soilcode, "ditch fill"))

\* lines 163-179: one layer per pair of the intersection list, from pair i on
RECURSIVE BermLayers(_, _, _, _, _)
BermLayers(d, ints, pB, soilcode, i) ==
    IF i > Len(ints) THEN d
    ELSE LET p1 == ints[i]
             p2 == ints[i + 1]
             points == (IF RLt(Px(p1), Px(pB)) /\ RLt(Px(pB), Px(p2))
                        THEN <<p1, pB, p2>> ELSE <<p1, p2>>)
                       \o Reverse(surface_points_between(d, Px(p1), Px(p2)))
         IN  BermLayers(add_layer(d, points, soilcode, ""), ints, pB, soilcode, i + 2)

\* lines 158-181: an odd list raises, an even one bounds the layers
BermEmit(h, ref, a, l) ==
    IF Len(l.ints) % 2 # 0
    THEN Raise(h, "ValueError",
               "The berm continues outside of the right limit of the geometry, cannot create berm", l)
    ELSE Return(Put(h, ref, BermLayers(h[ref], l.ints, l.pB, a.soilcode, 1)), ref, l)

\* lines 147-152: the intersections rounded, pA and pC put back when missing
BermRounded(h, ref, a, l, pC, raw) ==
    LET rnd == [i \in 1..Len(raw) |-> RoundPt(raw[i])]
        withA == IF ~InSeq(RoundPt(l.pA), rnd) THEN <<l.pA>> \o rnd ELSE rnd
        ints  == IF ~InSeq(RoundPt(pC), withA) THEN Append(withA, pC) ELSE withA
    IN  BermEmit(h, ref, a, [l EXCEPT !.stage = 3, !.pC = pC, !.ints = ints])

\* lines 139-146: pC is the last intersection of [pB, p5]; the path
\* [pA, pB, pC] against the surface
BermPath(h, ref, a, l, bottom) ==
    IF Len(bottom) = 0
    THEN Raise(h, "ValueError", "No intersections between point B and p5, cannot create berm", l)
    ELSE BermRounded(h, ref, a, l, bottom[Len(bottom)],
                     polyline_polyline_intersections(<<l.pA, l.pB, bottom[Len(bottom)]>>,
                                                     h[ref].surface))

\* lines 133-138: from pB down the bottom slope to the right limit
BermBottom(h, ref, a, l) ==
    LET ds == h[ref]
        p5 == <<right(ds), RSub(Pz(l.pB), RDiv(RSub(right(ds), Px(l.pB)), a.slope_bottom))>>
    IN  BermPath(h, ref, a, l, polyline_polyline_intersections(<<l.pB, p5>>, ds.surface))

\* lines 130-131: pA and pB
BermShoulder(h, ref, a, l, pA) ==
    BermBottom(h, ref, a,
               [l EXCEPT !.stage = 2, !.pA = pA,
                         !.pB = <<RAdd(Px(pA), a.width),
                                  RSub(Pz(pA), RDiv(a.width, a.slope_top))>>])

\* lines 122-130: the intersections left of the toe, the last of them is pA
BermLeft(h, ref, a, toe, top) ==
    LET left_intersections == SelectSeq(top, LAMBDA p : RLt(Px(p), toe))
        l == [NoLoc EXCEPT !.stage = 1, !.top = top]
    IN  IF Len(left_intersections) = 0
        THEN Raise(h, "ValueError",
                   "No intersections on the left side of x_toe, can not create a berm", l)
        ELSE BermShoulder(h, ref, a, l, left_intersections[Len(left_intersections)])

\* lines 106-120: the top line of the berm through p2, against the surface
BermTop(h, ref, a, p1) ==
    LET ds == h[ref]
        p2 == <<Px(p1), RAdd(Pz(p1), a.height)>>
        p3 == <<left(ds), RAdd(Pz(p2), RDiv(RSub(Px(p1), left(ds)), a.slope_top))>>
        p4 == <<right(ds), RSub(Pz(p2), RDiv(RSub(right(ds), Px(p1)), a.slope_top))>>
    IN  BermLeft(h, ref, a, Px(p1), polyline_polyline_intersections(<<p3, p4>>, ds.surface))

\* lines 101-181: the berm itself, on the object ref
BermSizing(h, ref, a, toe) ==
    LET zs == z_at(h[ref], toe)
    IN  IF zs = <<>> THEN Raise(h, "IndexError", "list index out of range", NoLoc)
        ELSE BermTop(h, ref, a, <<toe, zs[1]>>)

\* _execute
BermExecute(h0, a, toe) ==
    LET ref == deepcopy(h0)
        h1  == Copied(h0, ref)
        h2  == IF a.fill_ditch THEN DitchFill(h1, ref, a) ELSE h1
    IN  IF SkipBerm(a) THEN Return(h2, ref, NoLoc)
        ELSE BermSizing(h2, ref, a, toe)

\* Algorithm.execute: the input check, then _execute
BermRun(h0, a) ==
    LET chk == BermCheckInput(h0["self"], a)
    IN  IF chk.err # "" THEN Raise(h0, chk.err, chk.msg, NoLoc)
        ELSE BermExecute(h0, a, chk.toe)

--------------------------------------------------------------------------
(* AlgorithmPhreaticLine.  The algorithm object a has the fields
   river_level, polder_level, B_offset, C_offset, E_offset, D_offset (None
   or a number) and surface_offset.

   The builder uses ds.z_at(x) as one number, the elevation of the surface
   at x: the highest of the z values at x.  Without a value there the
   subtraction that follows raises TypeError. *)

HasSurfaceZ(d, x) == z_at(d, x) # <<>>
SurfaceZ(d, x) == z_at(d, x)[1]

PLTypes == <<"embankment top waterside", "embankment top landside",
             "embankment toe landside", "embankment toe waterside">>

\* _check_input: the four landmarks in turn; .is_valid of an absent point
\* (None) raises AttributeError
RECURSIVE PLCheckFrom(_, _)
PLCheckFrom(d, i) ==
    IF i > Len(PLTypes) THEN [err |-> "", msg |-> ""]
    ELSE LET cp == Landmark(d, PLTypes[i])
         IN  IF cp = NoPoint
             THEN [err |-> "AttributeError", msg |-> "'NoneType' object has no attribute 'is_valid'"]
             ELSE IF ~is_valid(cp)
             THEN [err |-> "AlgorithmInputCheckError", msg |-> PLTypes[i]]
             ELSE PLCheckFrom(d, i + 1)

PLCheckInput(d) == PLCheckFrom(d, 1)

Lerp(p, q, x) ==
    RAdd(Pz(p), RMul(RDiv(RSub(x, Px(p)), RSub(Px(q), Px(p))), RSub(Pz(q), Pz(p))))

\* point A as the last of the intersections
LastHit(hits) == hits[Len(hits)]

\* line 70 (and 140): point A is the first of the intersections
PointA(hits) == hits[1]

Fail(kind, text) == [err |-> kind, msg |-> text, abcdef |-> <<>>, lists |-> FALSE]

\* lines 111-116 (and 175-180): F where the line through D and E, as the
\* code extends it, is at polder level; moved inside the right limit
ExtrapolatedF(d, a, D, E) ==
    LET Fx == RAdd(Px(E), RDiv(RMul(RSub(Pz(E), a.polder_level), RSub(Px(E), Px(D))),
                               RSub(Pz(E), Pz(D))))
    IN  <<IF RLt(right(d), Fx) THEN RSub(right(d), Q(1, 100)) ELSE Fx, a.polder_level>>

\* lines 109-125 (and 174-189): point F from D and E, or the first point
\* of the ditch at polder level
PointF(d, a, D, E) ==
    LET dp  == ditch_points(d)
        hit == IF Len(dp) > 0
               THEN line_polyline_intersections(left(d), a.polder_level, right(d),
                                                a.polder_level, dp)
               ELSE <<>>
    IN  IF Len(hit) > 0 THEN hit[1] ELSE ExtrapolatedF(d, a, D, E)

\* lines 112-127 (and 176-191): the six points of a layout
SixPoints(d, a, abc, D, E, lists) ==
    IF Pz(E) = Pz(D) THEN Fail("ZeroDivisionError", "Fx")
    ELSE [err |-> "", msg |-> "", lists |-> lists,
          abcdef |-> abc \o <<D, E, PointF(d, a, D, E)>>]

\* lines 92-99 (and 162-170): x of point D
ShoulderX(d, C, E) ==
    LET shoulder_point == Landmark(d, "shoulder base landside")
    IN  IF is_valid(shoulder_point) THEN shoulder_point.x
        ELSE RDiv(RAdd(Px(E), Px(C)), R(2))

\* lines 89-107: point D of the clay layouts
ClayD(d, a, abc, E) ==
    LET C  == abc[3]
        Dx == ShoulderX(d, C, E)
    IN  IF Landmark(d, "shoulder base landside") = NoPoint
        THEN Fail("AttributeError", "'NoneType' object has no attribute 'is_valid'")
        ELSE IF a.D_offset = NoNumber /\ Px(E) = Px(C) THEN Fail("ZeroDivisionError", "Dz")
        ELSE IF a.D_offset # NoNumber /\ ~HasSurfaceZ(d, Dx) THEN Fail("TypeError", "z_at")
        ELSE SixPoints(d, a, abc,
                       <<Dx, IF a.D_offset = NoNumber THEN Lerp(C, E, Dx)
                             ELSE RSub(SurfaceZ(d, Dx), a.D_offset)>>,
                       E, FALSE)

\* lines 72-87: points B, C and E of the clay layouts
ClayBCE(d, a, A) ==
    LET B  == <<RAdd(Px(A), R(1)), RSub(Pz(A), a.B_offset)>>
        C  == <<Landmark(d, "embankment top landside").x, RSub(Pz(A), a.C_offset)>>
        Ex == Landmark(d, "embankment toe landside").x
    IN  IF ~HasSurfaceZ(d, Ex) THEN Fail("TypeError", "z_at")
        ELSE ClayD(d, a, <<A, B, C>>, <<Ex, RSub(SurfaceZ(d, Ex), a.E_offset)>>)

\* _execute_clay_layout: the six points, as tuples
ClayLayout(d, a) ==
    LET hits == line_polyline_intersections(left(d), a.river_level, right(d),
                                            a.river_level, d.surface)
    IN  IF Len(hits) = 0
        THEN Fail("AlgorithmExecutionError", "No intersection with the surface and the given river level")
        ELSE ClayBCE(d, a, PointA(hits))

\* lines 162-172: point D of the sand on clay layout
SandD(d, a, abc, E) ==
    LET C  == abc[3]
        Dx == ShoulderX(d, C, E)
    IN  IF Landmark(d, "shoulder base landside") = NoPoint
        THEN Fail("AttributeError", "'NoneType' object has no attribute 'is_valid'")
        ELSE IF Px(E) = Px(C) THEN Fail("ZeroDivisionError", "Dz")
        ELSE SixPoints(d, a, abc, <<Dx, Lerp(C, E, Dx)>>, E, TRUE)

\* lines 156-160: point C of the sand on clay layout, on the line B-E
SandC(d, a, A, B, E) ==
    LET Cx == Landmark(d, "embankment top landside").x
    IN  IF Px(E) = Px(B) THEN Fail("ZeroDivisionError", "Cz")
        ELSE SandD(d, a, <<A, B, <<Cx, Lerp(B, E, Cx)>>>>, E)

\* lines 149-154: point E of the sand on clay layout
SandE(d, a, A, B) ==
    LET Ex  == Landmark(d, "embankment toe landside").x
        Ez0 == RSub(SurfaceZ(d, Ex), a.E_offset)
    IN  IF ~HasSurfaceZ(d, Ex) THEN Fail("TypeError", "z_at")
        ELSE SandC(d, a, A, B, <<Ex, RAdd(Ez0, RMul(Q(1, 4), RSub(Pz(A), Ez0)))>>)

\* lines 142-147: point B of the sand on clay layout, below A
SandB(d, a, A) ==
    LET px == Landmark(d, "embankment toe waterside").x
    IN  IF ~HasSurfaceZ(d, px) THEN Fail("TypeError", "z_at")
        ELSE SandE(d, a, A, <<Px(A), RSub(Pz(A), RMul(Q(1, 2), RSub(Pz(A), SurfaceZ(d, px))))>>)

\* _execute_sand_on_clay_layout: the six points, as lists
SandOnClayLayout(d, a) ==
    LET hits == line_polyline_intersections(left(d), a.river_level, right(d),
                                            a.river_level, d.surface)
    IN  IF Len(hits) = 0
        THEN Fail("AlgorithmExecutionError", "No intersection with the surface and the given river level")
        ELSE SandB(d, a, PointA(hits))

\* an entry of plpoints: the point, and whether it is a list (its z can be
\* assigned) or a tuple (assigning raises TypeError)
Entry(pt, isList) == [p |-> pt, list |-> isList]

\* lines 213-226: from control point i on, the point, the surface vertices
\* strictly between it and the next one interpolated, and at last point F
RECURSIVE Interpolated(_, _, _, _)
Interpolated(d, abcdef, lists, i) ==
    IF i > Len(abcdef) - 1 THEN <<>>
    ELSE LET p1 == abcdef[i]
             p2 == abcdef[i + 1]
             between == SelectSeq(d.surface, LAMBDA p : RLt(Px(p1), Px(p)) /\ RLt(Px(p), Px(p2)))
         IN  <<Entry(p1, lists)>>
             \o [k \in 1..Len(between) |-> Entry(<<Px(between[k]), Lerp(p1, p2, Px(between[k]))>>, TRUE)]
             \o (IF i = Len(abcdef) - 1 THEN <<Entry(p2, lists)>> ELSE <<>>)
             \o Interpolated(d, abcdef, lists, i + 1)

\* no entry counts as higher than the one before it
NeverHigher(pts, i, z) == FALSE

\* line 235: an entry is higher than the one before it
Higher(pts, i, z) == i > 1 /\ RLt(Pz(pts[i - 1].p), z)

\* the surface itself as the cap
NoOffset(d, x, surface_offset) == SurfaceZ(d, x)

\* lines 232-233: the highest z the check leaves at x
Cap(d, x, surface_offset) == RSub(SurfaceZ(d, x), surface_offset)

\* lines 229-236: the height check, from entry i on
RECURSIVE HeightCheck(_, _, _, _, _, _)
HeightCheck(d, pts, Cx, Fx, surface_offset, i) ==
    IF i > Len(pts) THEN [err |-> "", pts |-> pts]
    ELSE LET e  == pts[i]
             x  == Px(e.p)
             inRange == RLt(Cx, x) /\ RLe(x, Fx)
             cap == Cap(d, x, surface_offset)
             lower == RLt(cap, Pz(e.p))
             z1 == IF lower THEN cap ELSE Pz(e.p)
             drop == Higher(pts, i, z1)
             z2 == IF drop THEN Pz(pts[i - 1].p) ELSE z1
         IN  IF ~inRange THEN HeightCheck(d, pts, Cx, Fx, surface_offset, i + 1)
             ELSE IF ~HasSurfaceZ(d, x) THEN [err |-> "TypeError", pts |-> pts]
             ELSE IF (lower \/ drop) /\ ~e.list THEN [err |-> "TypeError", pts |-> pts]
             ELSE HeightCheck(d, [pts EXCEPT ![i] = Entry(<<x, z2>>, e.list)], Cx, Fx,
                              surface_offset, i + 1)

\* lines 238-241: the closing point, and the line set on the copy
PLSet(h, ref, a, l, chk) ==
    IF chk.err # ""
    THEN Raise(h, chk.err, "'tuple' object does not support item assignment", l)
    ELSE Return(Put(h, ref,
                    set_phreatic_line(h[ref],
                                      [i \in 1..Len(chk.pts) |-> chk.pts[i].p]
                                      \o << <<right(h[ref]), a.polder_level>> >>)),
                ref, l)

\* lines 208-236: the points of the line, then the height check
PLPoints(h, ref, a, lay) ==
    IF lay.err # "" THEN Raise(h, lay.err, lay.msg, NoLoc)
    ELSE PLSet(h, ref, a, [NoLoc EXCEPT !.abcdef = lay.abcdef],
               HeightCheck(h[ref],
                           <<Entry(<<left(h[ref]), a.river_level>>, TRUE),
                             Entry(lay.abcdef[1], lay.lists),
                             Entry(lay.abcdef[2], lay.lists)>>
                           \o Interpolated(h[ref], lay.abcdef, lay.lists, 3),
                           Px(lay.abcdef[3]), Px(lay.abcdef[6]), a.surface_offset, 1))

\* only the clay layouts are implemented
ClayOrNothing(ds, a) ==
    IF ds.layout \in {"clay on clay", "clay on sand"} THEN ClayLayout(ds, a)
    ELSE Fail("NotImplementedError", "")

\* lines 198-206: the layout decides how the six points are placed
PLLayout(ds, a) ==
    IF ds.layout \in {"clay on clay", "clay on sand"} THEN ClayLayout(ds, a)
    ELSE IF ds.layout = "sand on clay" THEN SandOnClayLayout(ds, a)
    ELSE Fail("NotImplementedError", "")

\* _execute
PLExecute(h0, a) ==
    LET ref == deepcopy(h0)
        h1  == Copied(h0, ref)
    IN  PLPoints(h1, ref, a, PLLayout(h1[ref], a))

\* Algorithm.execute: the input check, then _execute
PLRun(h0, a) ==
    LET chk == PLCheckInput(h0["self"])
    IN  IF chk.err # "" THEN Raise(h0, chk.err, chk.msg, NoLoc)
        ELSE PLExecute(h0, a)

--------------------------------------------------------------------------
(* The headlines of the waternet: a headline is [Label, Points], a point of
   it a PersistablePoint [X, Z]; the callers pass and get tuples <<x, z>> *)

PersistablePoint(X, Z) == [X |-> X, Z |-> Z]

\* `for hl in ...HeadLines: if hl.Label == label`: the first headline with
\* the label, 0 when there is none
Labelled(HL, label) ==
    IF \E k \in 1..Len(HL) : HL[k].Label = label
    THEN CHOOSE k \in 1..Len(HL) :
             HL[k].Label = label /\ \A j \in 1..(k - 1) : HL[j].Label # label
    ELSE 0

\* get_headline_coordinates: the points of the headline as tuples
get_headline_coordinates(HL, label) ==
    LET k == Labelled(HL, label)
    IN  IF k = 0 THEN [err |-> "ValueError", coords |-> <<>>]
        ELSE [err |-> "",
              coords |-> [i \in 1..Len(HL[k].Points) |-> <<HL[k].Points[i].X, HL[k].Points[i].Z>>]]

\* lines 167-168: Points[i] is assigned for i in range(len(coords)), the
\* points after them stay
Overwritten(Points, coords) ==
    [i \in 1..Len(Points) |->
        IF i <= Len(coords) THEN PersistablePoint(coords[i][1], coords[i][2]) ELSE Points[i]]

\* set_headline_coordinates: the headlines after the call, and the error
set_headline_coordinates(HL, label, coords) ==
    LET k == Labelled(HL, label)
    IN  IF k = 0 THEN [err |-> "ValueError", msg |-> "Invalid headline label", HeadLines |-> HL]
        ELSE IF Len(coords) > Len(HL[k].Points)
        THEN [err |-> "ValueError", msg |-> "Trying to set more coords", HeadLines |-> HL]
        ELSE [err |-> "", msg |-> "",
              HeadLines |-> [HL EXCEPT ![k].Points = Overwritten(HL[k].Points, coords)]]

--------------------------------------------------------------------------
(* Scenarios and stages: self.model.scenarios is a list of scenarios, a
   scenario the list of its stages; indices count from 0 *)

\* set_scenario_and_stage up to the call of _post_process: the indices
\* after the call, the error, and whether _post_process is reached.  The
\* scenario index is assigned (line 400) before the stage index is looked
\* at (line 404)
set_scenario_and_stage(scn, cur_scenario, cur_stage, scenario_index, stage_index) ==
    IF ~(scenario_index < Len(scn))
    THEN [err |-> "ValueError", msg |-> "Trying to set an invalid scenario index",
          scenario |-> cur_scenario, stage |-> cur_stage, post |-> FALSE]
    ELSE IF ~(stage_index < Len(scn[scenario_index + 1]))
    THEN [err |-> "ValueError", msg |-> "Trying to set an invalid stage index for scenario",
          scenario |-> scenario_index, stage |-> cur_stage, post |-> FALSE]
    ELSE [err |-> "", msg |-> "", scenario |-> scenario_index, stage |-> stage_index,
          post |-> TRUE]

--------------------------------------------------------------------------
(* The parts of the object a specification does not exercise *)

NoCall == [op |-> "none"]

\* no headline in the waternet, no call made
NoHeadlines == HeadLines = <<>> /\ hcall = NoCall

\* DStability() as constructed (lines 34-35), no scenario read, no call made
NoStages ==
    /\ scenarios = <<>>
    /\ current_scenario_index = 0
    /\ current_stage_index = 0
    /\ scall = NoCall

--------------------------------------------------------------------------
(* The cross-sections and arguments the builders are run on *)

P(x, z) == <<R(x), R(z)>>

\* a levee between river (left) and polder (right) with a ditch, on two
\* layers; the ring is the exterior of their union, clockwise, from an
\* arbitrary vertex
LeveeTop == <<P(0, 0), P(2, 0), P(6, 4), P(8, 4), P(12, 0), P(14, 0), P(15, -1),
              P(16, -1), P(17, 0), P(20, 0)>>

LeveeLayers ==
    << [points |-> LeveeTop \o <<P(20, -2), P(0, -2)>>, soil |-> "clay", label |-> "top"],
       [points |-> <<P(0, -2), P(20, -2), P(20, -3), P(0, -3)>>, soil |-> "sand",
        label |-> "base"] >>

LeveeRing == <<P(20, -3), P(0, -3), P(0, -2)>> \o LeveeTop \o <<P(20, -2)>>

\* a levee in front of high ground, one layer, no ditch: the surface meets
\* z = 4 at x = 10 only
HighTop == <<P(0, 2), P(8, 2), P(12, 6), P(14, 6), P(16, 5), P(20, 5)>>

HighLayers == << [points |-> HighTop \o <<P(20, 0), P(0, 0)>>, soil |-> "clay", label |-> "top"] >>

HighRing == <<P(20, 0), P(0, 0)>> \o HighTop

\* a plateau that ends in a block hanging over a hollow, one layer, no
\* ditch: the ring is simple, the surface runs back in x twice
HollowTop == <<P(0, 8), P(10, 8), P(10, 1), P(7, 1), P(7, 6), P(3, 6), P(3, 0), P(20, 0)>>

HollowLayers ==
    << [points |-> HollowTop \o <<P(20, -1), P(0, -1)>>, soil |-> "clay", label |-> "top"] >>

HollowRing == <<P(20, -1), P(0, -1)>> \o HollowTop

\* the landmarks the phreatic-line builder asks for: complete (the shoulder
\* registered without a coordinate, with one, or not registered), one
\* landmark not registered, one registered without a coordinate
Landmarks(tw, tl, toel, toew, sh) ==
    LET four == ("embankment top waterside" :> R(tw)) @@ ("embankment top landside" :> R(tl))
                @@ ("embankment toe landside" :> R(toel)) @@ ("embankment toe waterside" :> R(toew))
        noTop == ("embankment top waterside" :> R(tw))
                @@ ("embankment toe landside" :> R(toel)) @@ ("embankment toe waterside" :> R(toew))
                @@ ("shoulder base landside" :> NaN)
    IN  { four @@ ("shoulder base landside" :> NaN),
          four @@ ("shoulder base landside" :> R(sh)),
          four,
          noTop,
          [four EXCEPT !["embankment toe waterside"] = NaN] @@ ("shoulder base landside" :> NaN) }

Layouts == {"clay on clay", "clay on sand", "sand on clay", "sand on sand"}

Soils == {"clay", "sand"}

Section(layers, ring, toe, emb, land, cps, layout) ==
    [layers |-> layers, soils |-> Soils, boundary |-> ring, surface |-> SurfaceOf(ring),
     toe_land |-> toe, ditch_emb |-> emb, ditch_land |-> land, cps |-> cps,
     layout |-> layout, pl |-> <<>>]

LeveeCps == Landmarks(6, 8, 12, 2, 11)
HighCps == Landmarks(12, 14, 16, 8, 15)

\* the berm builder reads neither the landmark registry nor the layout, the
\* phreatic-line builder reads no toe setting: each is run on the sections
\* that differ in what it reads
BermSections ==
    { Section(LeveeLayers, LeveeRing, toe, emb, land, CHOOSE c \in LeveeCps : TRUE, "clay on clay") :
        toe \in {NaN, R(12)}, emb \in {NaN, R(14)}, land \in {NaN, R(17)} }
    \cup { Section(HighLayers, HighRing, R(16), NaN, NaN, CHOOSE c \in HighCps : TRUE, "clay on clay") }
    \cup { Section(HollowLayers, HollowRing, R(12), NaN, NaN, CHOOSE c \in HighCps : TRUE,
                   "clay on clay") }

PLSections ==
    { Section(LeveeLayers, LeveeRing, R(12), emb, R(17), c, lay) :
        emb \in {NaN, R(14)}, c \in LeveeCps, lay \in Layouts }
    \cup { Section(HighLayers, HighRing, R(16), NaN, NaN, c, lay) :
             c \in HighCps, lay \in Layouts }

CrossSections == BermSections \cup PLSections

MaxWidth == 5
MaxHeight == 3

Widths  == {R(w) : w \in 0..MaxWidth}
Heights == {R(k) : k \in 0..MaxHeight}

BermArgs ==
    [soilcode : {"clay", "peat"}, slope_top : {R(2), R(4)}, slope_bottom : {R(1), R(2)},
     width : Widths, height : Heights, fill_ditch : BOOLEAN,
     ditch_soilcode : {None, "sand", "peat"}]

PLArgs ==
    [river_level : {R(3), R(4), R(7)}, polder_level : {Q(-1, 2), R(0), Q(45, 28)},
     B_offset : {R(1)}, C_offset : {Q(3, 2)}, E_offset : {R(0), Q(1, 2)},
     D_offset : {NoNumber, Q(1, 2)}, surface_offset : {R(0), Q(1, 2)}]

NoArgs == [none |-> TRUE]

Init ==
    /\ heap \in [{"self"} -> CrossSections]
    /\ alg = "none"
    /\ args = NoArgs
    /\ ret = "none"
    /\ err = ""
    /\ msg = ""
    /\ loc = NoLoc
    /\ boundary = <<>>
    /\ surface = <<>>
    /\ done = FALSE
    /\ characteristic_points = <<>>
    /\ sets = <<>>
    /\ got = NoGot
    /\ NoHeadlines /\ NoStages /\ zcall = NoCall

\* alg = AlgorithmBermWSBD(ds=ds, ...); alg.execute()
BermBuild ==
    /\ alg = "none"
    /\ heap["self"] \in BermSections
    /\ \E a \in BermArgs :
         \E r \in {BermRun(heap, a)} :
             /\ heap' = r.heap
             /\ alg' = "berm"
             /\ args' = a
             /\ ret' = r.ret
             /\ err' = r.err
             /\ msg' = r.msg
             /\ loc' = r.loc
    /\ UNCHANGED <<boundary, surface, done, registry, headlines, stages, zcall>>

\* the caller lets go of the algorithm object and of what it returned
Discard ==
    /\ alg # "none"
    /\ heap' = [r \in {"self"} |-> heap["self"]]
    /\ alg' = "none"
    /\ args' = NoArgs
    /\ ret' = "none"
    /\ err' = ""
    /\ msg' = ""
    /\ loc' = NoLoc
    /\ UNCHANGED <<boundary, surface, done, registry, headlines, stages, zcall>>

\* alg = AlgorithmPhreaticLine(ds=ds, ...); alg.execute()
PLBuild ==
    /\ alg = "none"
    /\ heap["self"] \in PLSections
    /\ \E a \in PLArgs :
         \E r \in {PLRun(heap, a)} :
             /\ heap' = r.heap
             /\ alg' = "pl"
             /\ args' = a
             /\ ret' = r.ret
             /\ err' = r.err
             /\ msg' = r.msg
             /\ loc' = r.loc
    /\ UNCHANGED <<boundary, surface, done, registry, headlines, stages, zcall>>

Next == BermBuild \/ PLBuild \/ Discard

Spec == Init /\ [][Next]_vars

--------------------------------------------------------------------------
(* The surface extractor on its own: _post_process from the exterior ring
   of the merged layers on (lines 270-298).  The rings are the simple
   clockwise polygons with a flat base, two side walls and two free
   vertices on top, which gives slopes, vertical steps, level stretches
   and overhangs; orient() may start the ring at any of its vertices. *)

MaxRingX == 3
MaxRingZ == 3

RingW == MaxRingX + 1

Mids == {P(x, z) : x \in 1..MaxRingX, z \in 1..MaxRingZ}

\* r lies on the segment [p, q]
OnSegment(p, q, r) ==
    /\ RMul(RSub(Px(q), Px(p)), RSub(Pz(r), Pz(p)))
         = RMul(RSub(Pz(q), Pz(p)), RSub(Px(r), Px(p)))
    /\ RLe(RMin(Px(p), Px(q)), Px(r)) /\ RLe(Px(r), RMax(Px(p), Px(q)))
    /\ RLe(RMin(Pz(p), Pz(q)), Pz(r)) /\ RLe(Pz(r), RMax(Pz(p), Pz(q)))

\* the top a, m1, m2, b neither crosses nor touches itself
SimpleTop(a, m1, m2, b) ==
    /\ m1 # m2
    /\ SegSeg(a, m1, m2, b) = <<>>
    /\ ~OnSegment(a, m1, m2) /\ ~OnSegment(m2, b, m1)
    /\ ~OnSegment(a, m1, b) /\ ~OnSegment(m2, b, a)

Ring(m1, m2) == <<P(0, 1), m1, m2, P(RingW, 1), P(RingW, 0), P(0, 0)>>

Turn(ring, r) == SubSeq(ring, r + 1, Len(ring)) \o SubSeq(ring, 1, r)

Tops == {t \in Mids \X Mids : SimpleTop(P(0, 1), t[1], t[2], P(RingW, 1))}

Rings == { Turn(Ring(t[1], t[2]), r) : t \in Tops, r \in 0..5 }

InitSurface ==
    /\ heap \in [{"self"} -> {CHOOSE d \in BermSections : TRUE}]
    /\ alg = "none"
    /\ args = NoArgs
    /\ ret = "none"
    /\ err = ""
    /\ msg = ""
    /\ loc = NoLoc
    /\ boundary \in Rings
    /\ surface = <<>>
    /\ done = FALSE
    /\ characteristic_points = <<>>
    /\ sets = <<>>
    /\ got = NoGot
    /\ NoHeadlines /\ NoStages /\ zcall = NoCall

\* lines 270-298: the ring is rounded, turned to start at the top left point
\* and cut after the top right point
PostProcess ==
    /\ ~done
    /\ boundary # <<>>
    /\ boundary' = [i \in 1..Len(boundary) |-> RoundPt(boundary[i])]
    /\ surface' = SurfaceOf(boundary')
    /\ done' = TRUE
    /\ UNCHANGED <<heap, alg, args, ret, err, msg, loc, registry, headlines, stages, zcall>>

NextSurface == PostProcess

SpecSurface == InitSurface /\ [][NextSurface]_vars

--------------------------------------------------------------------------
(* The registry on its own: set_characteristic_point and
   get_characteristic_point on a DStability constructed with the empty
   list (line 33) *)

MaxSets == 3

CalledTypes == {"toe left", "crest right", "embankment top landside", "ditch landside"}

CalledXs == {R(1), R(2)}

InitRegistry ==
    /\ heap \in [{"self"} -> {CHOOSE d \in BermSections : TRUE}]
    /\ alg = "none"
    /\ args = NoArgs
    /\ ret = "none"
    /\ err = ""
    /\ msg = ""
    /\ loc = NoLoc
    /\ boundary = <<>>
    /\ surface = <<>>
    /\ done = FALSE
    /\ characteristic_points = <<>>
    /\ sets = <<>>
    /\ got = NoGot
    /\ NoHeadlines /\ NoStages /\ zcall = NoCall

\* ds.set_characteristic_point(x, point_type)
SetPoint ==
    /\ Len(sets) < MaxSets
    /\ \E x \in CalledXs, point_type \in CalledTypes :
         /\ characteristic_points' = set_characteristic_point(characteristic_points, x, point_type)
         /\ sets' = Append(sets, CharacteristicPoint(x, point_type))
    /\ UNCHANGED <<heap, alg, args, ret, err, msg, loc, boundary, surface, done, got,
                   headlines, stages, zcall>>

\* ds.get_characteristic_point(point_type)
GetPoint ==
    /\ \E point_type \in CalledTypes :
         got' = [point_type |-> point_type,
                 result |-> get_characteristic_point(characteristic_points, point_type),
                 at |-> characteristic_points]
    /\ UNCHANGED <<heap, alg, args, ret, err, msg, loc, boundary, surface, done,
                   characteristic_points, sets, headlines, stages, zcall>>

NextRegistry == SetPoint \/ GetPoint

SpecRegistry == InitRegistry /\ [][NextRegistry]_vars

--------------------------------------------------------------------------
(* The headlines on their own: get_headline_coordinates and
   set_headline_coordinates on a waternet with two headlines, the second
   one under its own label or under the label of the first *)

MaxPoints == 3

HeadLabels == {"Phreatic line", "HL 1"}

CalledLabels == HeadLabels \cup {"HL 2"}

\* a headline of n points at level z
Level(n, z) == [i \in 1..n |-> PersistablePoint(R(i), R(z))]

\* the coordinate lists the callers pass: up to one more than a headline
\* can have
CalledCoords == { [i \in 1..n |-> P(10 * i, 7)] : n \in 0..(MaxPoints + 1) }

InitHeadlines ==
    /\ heap \in [{"self"} -> {CHOOSE d \in BermSections : TRUE}]
    /\ alg = "none"
    /\ args = NoArgs
    /\ ret = "none"
    /\ err = ""
    /\ msg = ""
    /\ loc = NoLoc
    /\ boundary = <<>>
    /\ surface = <<>>
    /\ done = FALSE
    /\ characteristic_points = <<>>
    /\ sets = <<>>
    /\ got = NoGot
    /\ \E n1, n2 \in 1..MaxPoints, label2 \in HeadLabels :
          HeadLines = << [Label |-> "Phreatic line", Points |-> Level(n1, 1)],
                         [Label |-> label2, Points |-> Level(n2, 2)] >>
    /\ hcall = NoCall
    /\ NoStages /\ zcall = NoCall

\* ds.set_headline_coordinates(label, coords)
SetHeadline ==
    /\ \E label \in CalledLabels, coords \in CalledCoords :
         \E r \in {set_headline_coordinates(HeadLines, label, coords)} :
             /\ HeadLines' = r.HeadLines
             /\ hcall' = [op |-> "set", label |-> label, coords |-> coords,
                          before |-> HeadLines, err |-> r.err, result |-> <<>>]
    /\ UNCHANGED <<heap, alg, args, ret, err, msg, loc, boundary, surface, done, registry,
                   stages, zcall>>

\* ds.get_headline_coordinates(label)
GetHeadline ==
    /\ \E label \in CalledLabels :
         \E r \in {get_headline_coordinates(HeadLines, label)} :
             hcall' = [op |-> "get", label |-> label, coords |-> <<>>,
                       before |-> HeadLines, err |-> r.err, result |-> r.coords]
    /\ UNCHANGED <<heap, alg, args, ret, err, msg, loc, boundary, surface, done, registry,
                   HeadLines, stages, zcall>>

NextHeadlines == SetHeadline \/ GetHeadline

SpecHeadlines == InitHeadlines /\ [][NextHeadlines]_vars

--------------------------------------------------------------------------
(* Scenarios and stages on their own: set_scenario_and_stage on an object
   read by from_stix, which ends with set_scenario_and_stage(0, 0)
   (line 69).  Every stage has its own geometry, so the caches tell the
   stages apart. *)

MaxScenarios == 2
MaxStages == 2

\* the exterior ring of the stage's merged layers
StageRing(s, t) == Ring(P(1, s + 1), P(2, t + 1))

\* the models: 1..MaxScenarios scenarios of 1..MaxStages stages each
StageModels ==
    UNION { { [s \in 1..n |-> [t \in 1..k[s] |-> StageRing(s, t)]] :
                k \in [1..n -> 1..MaxStages] } : n \in 1..MaxScenarios }

\* the indices the callers pass: the valid ones and one beyond
CalledScenarios == 0..MaxScenarios
CalledStages == 0..MaxStages

\* lines 270-298 for the ring of a stage
BoundaryOf(ring) == [i \in 1..Len(ring) |-> RoundPt(ring[i])]

InitStages ==
    /\ heap \in [{"self"} -> {CHOOSE d \in BermSections : TRUE}]
    /\ alg = "none"
    /\ args = NoArgs
    /\ ret = "none"
    /\ err = ""
    /\ msg = ""
    /\ loc = NoLoc
    /\ characteristic_points = <<>>
    /\ sets = <<>>
    /\ got = NoGot
    /\ NoHeadlines /\ zcall = NoCall
    /\ scenarios \in StageModels
    /\ current_scenario_index = 0
    /\ current_stage_index = 0
    /\ boundary = BoundaryOf(scenarios[1][1])
    /\ surface = SurfaceOf(boundary)
    /\ done = TRUE
    /\ scall = NoCall

\* ds.set_scenario_and_stage(scenario_index, stage_index)
SetScenarioAndStage ==
    /\ \E scenario_index \in CalledScenarios, stage_index \in CalledStages :
         \E r \in {set_scenario_and_stage(scenarios, current_scenario_index,
                                          current_stage_index, scenario_index, stage_index)} :
             /\ current_scenario_index' = r.scenario
             /\ current_stage_index' = r.stage
             /\ boundary' = IF r.post THEN BoundaryOf(scenarios[r.scenario + 1][r.stage + 1])
                            ELSE boundary
             /\ surface' = IF r.post THEN SurfaceOf(boundary') ELSE surface
             /\ scall' = [op |-> "set", scenario_index |-> scenario_index,
                          stage_index |-> stage_index, err |-> r.err,
                          before |-> <<current_scenario_index, current_stage_index,
                                       boundary, surface>>]
    /\ UNCHANGED <<heap, alg, args, ret, err, msg, loc, done, registry, headlines,
                   scenarios, zcall>>

NextStages == SetScenarioAndStage

SpecStages == InitStages /\ [][NextStages]_vars

--------------------------------------------------------------------------
(* The elevation query on its own: z_at on cross-sections of two layers,
   a top layer whose point list starts at any of its vertices over a
   base layer; the layers share the level z = 0 *)

BaseLayer ==
    [points |-> <<P(0, 0), P(RingW, 0), P(RingW, -1), P(0, -1)>>, soil |-> "sand",
     label |-> "base"]

ZSections ==
    { Section(<< [points |-> Turn(Ring(t[1], t[2]), r), soil |-> "clay", label |-> "top"],
                 BaseLayer >>,
              Ring(t[1], t[2]), NaN, NaN, NaN, CHOOSE c \in LeveeCps : TRUE, "clay on clay") :
        t \in Tops, r \in 0..5 }

\* the x asked for: the whole and the half values across the section
QueriedXs == { Q(k, 2) : k \in 0..(2 * RingW) }

InitZAt ==
    /\ heap \in [{"self"} -> ZSections]
    /\ alg = "none"
    /\ args = NoArgs
    /\ ret = "none"
    /\ err = ""
    /\ msg = ""
    /\ loc = NoLoc
    /\ boundary = <<>>
    /\ surface = <<>>
    /\ done = FALSE
    /\ characteristic_points = <<>>
    /\ sets = <<>>
    /\ got = NoGot
    /\ NoHeadlines /\ NoStages /\ zcall = NoCall

\* ds.z_at(x)
ZAt ==
    /\ \E x \in QueriedXs :
         zcall' = [op |-> "z_at", x |-> x, result |-> z_at(heap["self"], x)]
    /\ UNCHANGED <<heap, alg, args, ret, err, msg, loc, boundary, surface, done, registry,
                   headlines, stages>>

NextZAt == ZAt

SpecZAt == InitZAt /\ [][NextZAt]_vars

--------------------------------------------------------------------------
(* Properties of the berm builder *)

BermCall == alg = "none" /\ alg' = "berm"
PLCall == alg = "none" /\ alg' = "pl"
Positive(r) == RLt(R(0), r)
InputError == "AlgorithmInputCheckError"
ExecutionError == "AlgorithmExecutionError"

\* C1: a berm call with width > 0 and height > 0 whose soilcode is not in
\* the soil catalogue, or whose toe landmark is nan, raises
\* AlgorithmInputCheckError, and no cross-section gets a layer: no copy is
\* made and the caller's object stays as it was.
C1_BadBermInputRaises ==
    [][(/\ BermCall
        /\ Positive(args'.width) /\ Positive(args'.height)
        /\ (args'.soilcode \notin heap["self"].soils \/ isnan(heap["self"].toe_land)))
       => (err' = InputError /\ ret' = "none" /\ heap' = heap)]_vars

C1_Witness ==
    /\ alg = "berm"
    /\ Positive(args.width) /\ Positive(args.height)
    /\ args.soilcode \notin heap["self"].soils
    /\ ~isnan(heap["self"].toe_land)
    /\ err = InputError /\ msg = "invalid soilcode"

\* C2: a berm call with fill_ditch, whatever width and height, raises
\* AlgorithmInputCheckError with the heap untouched when a ditch landmark is
\* nan, ditch_soilcode is None or ditch_soilcode is not a known soil.
C2_BadDitchInputRaises ==
    [][(/\ BermCall
        /\ args'.fill_ditch
        /\ \/ isnan(heap["self"].ditch_emb)
           \/ isnan(heap["self"].ditch_land)
           \/ args'.ditch_soilcode = None
           \/ args'.ditch_soilcode \notin heap["self"].soils)
       => (err' = InputError /\ ret' = "none" /\ heap' = heap)]_vars

C2_Witness ==
    /\ alg = "berm"
    /\ args.fill_ditch /\ args.width = R(0) /\ args.height = R(0)
    /\ args.ditch_soilcode = None
    /\ ~isnan(heap["self"].ditch_emb) /\ ~isnan(heap["self"].ditch_land)
    /\ err = InputError /\ msg = "ditch soilcode not set"
    /\ DOMAIN heap = {"self"}

\* C3: a berm call with width <= 0 or height <= 0 raises nothing but a
\* ditch input error, whatever soilcode and toe are; when it returns, the
\* returned object has the input's layers, followed by one layer of soil
\* ditch_soilcode when fill_ditch is set and by nothing otherwise.
C3_OnlyDitchFill ==
    (alg = "berm" /\ (RLe(args.width, R(0)) \/ RLe(args.height, R(0)))) =>
        LET old == heap["self"].layers
        IN  IF err # ""
            THEN /\ err = InputError /\ args.fill_ditch
                 /\ msg \in {"ditch points missing", "ditch soilcode not set",
                             "ditch soilcode not valid"}
            ELSE /\ ret # "none"
                 /\ LET new == heap[ret].layers
                    IN  IF args.fill_ditch
                        THEN /\ Len(new) = Len(old) + 1
                             /\ SubSeq(new, 1, Len(old)) = old
                             /\ new[Len(new)].soil = args.ditch_soilcode
                        ELSE new = old

C3_Witness ==
    /\ alg = "berm"
    /\ args.width = R(0) /\ Positive(args.height) /\ args.fill_ditch
    /\ args.soilcode \notin heap["self"].soils
    /\ isnan(heap["self"].toe_land)
    /\ ret # "none"
    /\ Len(heap[ret].layers) = Len(heap["self"].layers) + 1
    /\ heap[ret].layers[Len(heap[ret].layers)].label = "ditch fill"

\* C4: the intersection list that bounds the new layers has an even number
\* of entries whenever berm layers are added; a list with an odd number of
\* entries makes the call raise AlgorithmExecutionError and adds no berm
\* layer.
C4_OddCountRaisesExecutionError ==
    (alg = "berm" /\ loc.stage = 3) =>
        IF Len(loc.ints) % 2 = 1
        THEN err = ExecutionError /\ ret = "none"
        ELSE ret # "none"

\* C5: a berm call with width > 0 and height > 0 that passes the input
\* check and finds no intersection of P3-P4 with the surface left of the toe
\* raises AlgorithmExecutionError with the message "No intersections on the
\* left side ...".
C5_NoLeftIntersectionRaisesExecutionError ==
    (/\ alg = "berm" /\ loc.stage >= 1
     /\ \A i \in 1..Len(loc.top) : ~RLt(Px(loc.top[i]), heap["self"].toe_land))
    => (/\ err = ExecutionError
        /\ msg = "No intersections on the left side of x_toe, can not create a berm")

--------------------------------------------------------------------------
(* Properties of both builders *)

\* C6: every call of the berm builder and of the phreatic-line builder,
\* whether it returns or raises, leaves the caller's object (layers,
\* landmarks, surface, boundary, phreatic line) as it was; what is returned
\* is another object, and a call that raises returns nothing.
C6_OriginalUntouched ==
    [][(BermCall \/ PLCall)
       => (/\ heap'["self"] = heap["self"]
           /\ ret' # "self"
           /\ (err' # "" => ret' = "none"))]_vars

C6_Witness ==
    /\ alg = "berm" /\ loc.stage = 3 /\ ret = "copy"
    /\ Len(heap["copy"].layers) > Len(heap["self"].layers)
    /\ heap["copy"].surface # heap["self"].surface

--------------------------------------------------------------------------
(* Properties of the phreatic-line builder *)

PLout == heap[ret].pl
Produced == alg = "pl" /\ ret # "none"
PtC == loc.abcdef[3]
PtF == loc.abcdef[6]
InCF(p) == RLt(Px(PtC), Px(p)) /\ RLe(Px(p), Px(PtF))

EdgeMeets(S, k, lvl) ==
    /\ Pz(S[k]) # Pz(S[k + 1])
    /\ RLe(RMin(Pz(S[k]), Pz(S[k + 1])), lvl)
    /\ RLe(lvl, RMax(Pz(S[k]), Pz(S[k + 1])))

OnEdge(S, k, p) ==
    RMul(RSub(Px(p), Px(S[k])), RSub(Pz(S[k + 1]), Pz(S[k])))
        = RMul(RSub(Pz(p), Pz(S[k])), RSub(Px(S[k + 1]), Px(S[k])))

--------------------------------------------------------------------------
(* Properties of the surface extractor *)

\* C10: for every boundary ring, overhangs included, the surface derived
\* from it has non-decreasing x from its first point to its last.
C10_SurfaceNonDecreasingX ==
    done => \A i \in 1..(Len(surface) - 1) : RLe(Px(surface[i]), Px(surface[i + 1]))

\* C11: the surface is a run of consecutive vertices of the boundary ring,
\* taken round the ring from some vertex on; its first point is the highest
\* of the boundary points with the least x, its last point the highest of
\* those with the greatest x, and it ends there: that point occurs in the
\* surface only as its last point.
C11_SurfaceIsBoundaryRun ==
    done =>
        LET n == Len(boundary)
            m == Len(surface)
        IN  /\ 1 <= m /\ m <= n
            /\ \E k \in 1..n : \A i \in 1..m : surface[i] = boundary[((k + i - 2) % n) + 1]
            /\ Px(surface[1]) = MinX(boundary)
            /\ Px(surface[m]) = MaxX(boundary)
            /\ \A j \in 1..n :
                  /\ Px(boundary[j]) = MinX(boundary) => RLe(Pz(boundary[j]), Pz(surface[1]))
                  /\ Px(boundary[j]) = MaxX(boundary) => RLe(Pz(boundary[j]), Pz(surface[m]))
            /\ \A i \in 1..(m - 1) : surface[i] # surface[m]

\* a ring that starts at its bottom right corner and has an overhang on top
C11_Witness ==
    /\ done
    /\ boundary[1] = P(RingW, 0)
    /\ surface = <<P(0, 1), P(2, 1), P(1, 2), P(RingW, 1)>>

--------------------------------------------------------------------------
(* Properties of the phreatic-line builder: its input check and layouts *)

\* the landmark is not in the registry, or is there without a coordinate
Missing(d, point_type) == point_type \notin DOMAIN d.cps \/ isnan(d.cps[point_type])

\* C12: a phreatic-line call on a cross-section on which one of the four
\* landmarks (top waterside, top landside, toe landside, toe waterside) is
\* absent from the registry or registered with a nan x raises
\* AlgorithmInputCheckError naming the first such landmark, returns nothing
\* and computes no control point.
C12_MissingLandmarkRaisesInputError ==
    (alg = "pl" /\ \E i \in 1..Len(PLTypes) : Missing(heap["self"], PLTypes[i])) =>
        LET first == CHOOSE i \in 1..Len(PLTypes) :
                        /\ Missing(heap["self"], PLTypes[i])
                        /\ \A j \in 1..(i - 1) : ~Missing(heap["self"], PLTypes[j])
        IN  /\ err = InputError /\ msg = PLTypes[first]
            /\ ret = "none" /\ loc.abcdef = <<>>

\* what _execute_sand_on_sand_layout raises
NotSupportedError == "NotImplementedError"

--------------------------------------------------------------------------
(* Properties of the registry *)

\* the positions of the list that hold a point of the type
Holding(cps, point_type) == {i \in 1..Len(cps) : cps[i].point_type = point_type}

\* C14: from the empty registry on, after every sequence of sets, each of
\* the eight singular types has no entry when it was never set and
\* otherwise one entry, which carries the x of the latest set of the type;
\* and a set of any other type appends one entry [x, type] at the end of
\* the list and leaves the entries before it as they were.
C14_RegistrySet ==
    /\ [](\A t \in SingularTypes :
            LET of == Holding(characteristic_points, t)
                by == Holding(sets, t)
            IN  IF by = {} THEN of = {}
                ELSE /\ Cardinality(of) = 1
                     /\ \A i \in of : \A k \in by :
                           (\A j \in by : j <= k) => characteristic_points[i].x = sets[k].x)
    /\ [][(sets' # sets /\ sets'[Len(sets')].point_type \notin SingularTypes)
           => characteristic_points' = Append(characteristic_points, sets'[Len(sets')])]_vars

\* a singular type set twice and another type set in between
C14_Witness ==
    /\ Len(sets) = 3
    /\ sets[1].point_type = "toe left" /\ sets[3].point_type = "toe left"
    /\ sets[1].x # sets[3].x
    /\ sets[2].point_type = "ditch landside"
    /\ characteristic_points = <<sets[3], sets[2]>>

\* the list holds the points of the type in the order of the registry
InOrder(list, cps, point_type) ==
    LET of == Holding(cps, point_type)
    IN  /\ Len(list) = Cardinality(of)
        /\ \A i \in of : list[Cardinality({j \in of : j <= i})] = cps[i]

\* what get returns for a singular type: the one entry of the type, or None
SingularAnswer(result, cps, point_type) ==
    IF Holding(cps, point_type) = {} THEN result = NoPoint
    ELSE /\ DOMAIN result = {"point"}
         /\ \E i \in Holding(cps, point_type) : result.point = cps[i]

\* C15 as stated: get returns for a singular type the entry of the type or
\* None, and for any other type the list of the entries of the type in
\* insertion order, the empty list when there is none.
C15_GetListPossiblyEmpty ==
    got.point_type # None =>
        IF got.point_type \in SingularTypes
        THEN SingularAnswer(got.result, got.at, got.point_type)
        ELSE /\ DOMAIN got.result = {"list"}
             /\ InOrder(got.result.list, got.at, got.point_type)

\* C15 amended: get returns for a singular type the entry of the type or
\* None, and for any other type the list of the entries of the type in
\* insertion order when there is one, and None when there is none.
C15_GetListOrNone ==
    got.point_type # None =>
        IF got.point_type \in SingularTypes
        THEN SingularAnswer(got.result, got.at, got.point_type)
        ELSE IF Holding(got.at, got.point_type) = {}
             THEN got.result = NoPoint
             ELSE /\ DOMAIN got.result = {"list"}
                  /\ InOrder(got.result.list, got.at, got.point_type)

\* a type with two entries of different x asked for, and a type without
\* entries asked for
C15_Witness ==
    \/ /\ got.point_type = "ditch landside"
       /\ DOMAIN got.result = {"list"}
       /\ Len(got.result.list) = 2
       /\ got.result.list[1].x # got.result.list[2].x
       /\ Len(got.at) = 3
    \/ /\ got.point_type = "embankment top landside"
       /\ got.result = NoPoint
       /\ Len(got.at) = 3

--------------------------------------------------------------------------
(* Properties of the berm layers *)

\* the berm builder returned after sizing a berm
Emitted == alg = "berm" /\ loc.stage = 3 /\ ret # "none"

\* the layers of the returned object that the loop of lines 163-179 added:
\* those after the input's layers and the ditch fill
NewLayers ==
    LET base == Len(heap["self"].layers) + (IF args.fill_ditch THEN 1 ELSE 0)
    IN  SubSeq(heap[ret].layers, base + 1, Len(heap[ret].layers))

Distinct(pts) == \A i, j \in 1..Len(pts) : i # j => pts[i] # pts[j]

\* C16: when berm layers are emitted there is one per consecutive pair
\* (left, right) of the intersection list, in the order of the list, each
\* with the berm's soilcode; its polygon is a ring of at least three
\* vertices that starts at left, and the least x of its vertices is left.x
\* and the greatest is right.x.
C16_PolygonSpansPair ==
    Emitted =>
        /\ 2 * Len(NewLayers) = Len(loc.ints)
        /\ \A k \in 1..Len(NewLayers) :
              LET pts == NewLayers[k].points
              IN  /\ NewLayers[k].soil = args.soilcode
                  /\ Len(pts) >= 3
                  /\ pts[1] = loc.ints[2 * k - 1]
                  /\ MinX(pts) = Px(loc.ints[2 * k - 1])
                  /\ MaxX(pts) = Px(loc.ints[2 * k])

\* C17: the polygon of the pair (left, right) is <<left, right>>, or
\* <<left, pB, right>> exactly when left.x < pB.x < right.x, followed by
\* surface points with x strictly between left.x and right.x only (for the
\* first pair of a call without ditch fill: by all of those of the input's
\* surface, in reverse order), and no vertex occurs twice in it.
C17_PolygonVertexList ==
    Emitted =>
        \A k \in 1..Len(NewLayers) :
            LET pts  == NewLayers[k].points
                l    == loc.ints[2 * k - 1]
                r    == loc.ints[2 * k]
                head == IF RLt(Px(l), Px(loc.pB)) /\ RLt(Px(loc.pB), Px(r))
                        THEN <<l, loc.pB, r>> ELSE <<l, r>>
                rest == SubSeq(pts, Len(head) + 1, Len(pts))
                within(p) == RLt(Px(l), Px(p)) /\ RLt(Px(p), Px(r))
            IN  /\ Len(pts) >= Len(head)
                /\ SubSeq(pts, 1, Len(head)) = head
                /\ \A i \in 1..Len(rest) : within(rest[i])
                /\ (k = 1 /\ ~args.fill_ditch)
                      => rest = Reverse(SelectSeq(heap["self"].surface, within))
                /\ Distinct(pts)

\* C18: once pA is placed it is one of the intersections of P3-P4 with the
\* surface, it lies left of the toe, and no intersection left of the toe
\* has a greater x.
C18_ShoulderIsRightmost ==
    (alg = "berm" /\ loc.stage >= 2) =>
        /\ InSeq(loc.pA, loc.top)
        /\ RLt(Px(loc.pA), heap["self"].toe_land)
        /\ \A i \in 1..Len(loc.top) :
              RLt(Px(loc.top[i]), heap["self"].toe_land) => RLe(Px(loc.top[i]), Px(loc.pA))

--------------------------------------------------------------------------
(* Properties of the phreatic-line builder: the height check and point D *)

\* lines 209-226 and 238: the points of the produced line as they are
\* constructed, before the height check
Built ==
    LET inner == Interpolated(heap["self"], loc.abcdef, TRUE, 3)
    IN  << <<left(heap["self"]), args.river_level>>, loc.abcdef[1], loc.abcdef[2] >>
        \o [i \in 1..Len(inner) |-> inner[i].p]
        \o << <<right(heap["self"]), args.polder_level>> >>

\* the point came out of the height check no higher than the surface at its
\* x less surface_offset
UnderCap(p) == RLe(Pz(p), RSub(SurfaceZ(heap["self"], Px(p)), args.surface_offset))

\* the constructed point is at or above the surface at its x
AtOrAbove(p) == RLe(SurfaceZ(heap["self"], Px(p)), Pz(p))

--------------------------------------------------------------------------
(* Properties of the headlines *)

\* C21: after set_headline_coordinates(label, coords) has returned without
\* error, get_headline_coordinates(label) returns coords, whether coords has
\* as many points as the headline had or fewer; when coords has more points
\* than the headline, the call raises ValueError and the headlines are as
\* they were.
C21_SetThenGet ==
    hcall.op = "set" =>
        LET k == Labelled(hcall.before, hcall.label)
        IN  /\ hcall.err = ""
                  => get_headline_coordinates(HeadLines, hcall.label)
                         = [err |-> "", coords |-> hcall.coords]
            /\ (k # 0 /\ Len(hcall.coords) > Len(hcall.before[k].Points))
                  => (hcall.err = "ValueError" /\ HeadLines = hcall.before)

--------------------------------------------------------------------------
(* Properties of the scenarios and stages *)

\* C22: after any sequence of set_scenario_and_stage calls with
\* non-negative indices, current_scenario_index is an index of a scenario
\* and current_stage_index an index of a stage of that scenario; after a
\* call that raised, both indices and the cached surface and boundary are
\* what they were before it.
C22_IndicesStayValid ==
    /\ current_scenario_index < Len(scenarios)
    /\ current_stage_index < Len(scenarios[current_scenario_index + 1])
    /\ (scall.op = "set" /\ scall.err # "")
          => <<current_scenario_index, current_stage_index, boundary, surface>> = scall.before

--------------------------------------------------------------------------
(* Properties of the elevation query *)

\* the layers with every point list closed: the first point once more at
\* the end, so that the edge from the last point to the first is an edge
\* of the list
Closed(layers) ==
    [k \in 1..Len(layers) |->
        [layers[k] EXCEPT !.points = layers[k].points \o <<layers[k].points[1]>>]]

\* C23: z_at(x) returns the distinct z at which the vertical line at x
\* meets an edge of a layer polygon, the edge from a layer's last point
\* back to its first included, sorted from high to low (for an edge that
\* is vertical itself, the z of its first end).
C23_EveryEdgeCounted ==
    zcall.op = "z_at" =>
        LET zs == AllZs(Closed(heap["self"].layers), zcall.x)
        IN  zcall.result = SortDesc({zs[i] : i \in 1..Len(zs)})

====
